---- MODULE Spec2Model ----
(***************************************************************************)
(* A model of programs/pistats.py (the Pi-hole status daemon) and of the   *)
(* display helpers of programs/clear.py.                                   *)
(*                                                                         *)
(* Threads: the main thread (MainT), the button listener's dispatcher      *)
(* thread (LsnT), which runs the registered callbacks one at a time, and   *)
(* one thread per threading.Timer (the slots 1..MaxTimers).  Every step of *)
(* a thread is one statement (or one display command group) of the source, *)
(* so the threads interleave between statements as they do in CPython.     *)
(***************************************************************************)
EXTENDS Integers, Sequences, FiniteSets, TLC

\* ------------------------------------------------------------------ bounds
\* Timer objects that exist at once (armed, or running their callback).
MaxTimers == 2
\* Timer ticks counted while nothing but the timer has driven the daemon.
MaxTicks == 5
\* Timer callbacks that run at once.
MaxRunning == 1
\* Interrupt signals delivered to the process.
MaxSigints == 1
\* Button presses the listener hands to a callback.
MaxPresses == 1

\* --------------------------------------------------------------- constants
MainT == 0
LsnT == -1
Slots == 1..MaxTimers
Threads == LsnT..MaxTimers

\* pistats.py:349, the answers of the interval menu
intervals == <<1, 5, 10, 30, 60, 120, 240, 0>>
\* the answers of the interval menu the model lets the user pick
IntervalAnswers == {4, 8}
\* pistats.py:460-464, the registered switches
Switches == 0..4
\* pistats.py:327, the last page index
LastPage == 3
\* the two lines of each page, pistats.py:370-421
PageLines == << <<"status", "ip">>, <<"uptime", "memtemp">>,
                <<"ads", "sites">>, <<"clients", "dns">> >>

\* ------------------------------------------------- the statistics fetch
\* What the environment answers to one call of pihole_stats.
SockOutcomes == {"ok", "OSError", "gaierror", "herror"}
Envs == [token : {"missing", "noline", "ok"}, create : SockOutcomes,
         connect : SockOutcomes, http : {"ok", "HTTPError"}]

\* Python's isinstance on the exception classes used here: socket.error is
\* OSError, and gaierror and herror are subclasses of it.
IsInstance(exc, cls) ==
    IF cls = "OSError" THEN exc \in {"OSError", "gaierror", "herror"}
    ELSE exc = cls

Caught(exc, classes) == \E c \in classes : IsInstance(exc, c)

Return(v, log) == [kind |-> "return", val |-> v, exc |-> "none", log |-> log]
Raise(x, log) == [kind |-> "raise", val |-> "none", exc |-> x, log |-> log]

\* _create_socket with the body of the with statement of _get_ip_address:
\* the exception of the body is thrown into the generator at the yield.
CreateSocket(e) ==
    LET made == e.create = "ok"
        exc == IF ~made THEN e.create ELSE e.connect
        body == IF ~made THEN <<"socket.socket">>
                ELSE IF exc = "ok"
                     THEN <<"socket.socket", "socket.connect", "socket.getsockname">>
                     ELSE <<"socket.socket", "socket.connect">>
        handled == exc /= "ok" /\ Caught(exc, {"OSError", "gaierror", "herror"})
        printed == IF handled THEN <<"print:Socket error occurred">> ELSE <<>>
        closed == IF made THEN <<"socket.close">> ELSE <<>>
    IN  IF exc = "ok" THEN Return("address", body \o closed)
        ELSE Raise(exc, body \o printed \o closed)

GetIpAddress(e) ==
    LET s == CreateSocket(e)
    IN  IF s.kind = "raise" /\ Caught(s.exc, {"gaierror", "herror"})
        THEN Return("ERROR?", s.log \o <<"print:Error getting IP Address">>)
        ELSE s

GetToken(e) ==
    CASE e.token = "missing" -> Raise("RuntimeError", <<"is_file">>)
      [] e.token = "noline" -> Raise("RuntimeError", <<"is_file", "open">>)
      [] OTHER -> Return("token", <<"is_file", "open">>)

RawApiStats_GetFirst(ip, e) ==
    LET got == <<"http.get">>
        t == GetToken(e)
    IN  IF e.http /= "ok" THEN Raise(e.http, got)
        ELSE IF t.kind = "raise" THEN Raise(t.exc, got \o t.log)
        ELSE Return("json", got \o t.log)

RawApiStats(ip, e) ==
    LET t == GetToken(e)
    IN  IF t.kind = "raise" THEN t
        ELSE IF e.http /= "ok" THEN Raise(e.http, t.log \o <<"http.get">>)
        ELSE Return("json", t.log \o <<"http.get">>)

PiholeStats(e) ==
    LET a == GetIpAddress(e)
    IN  IF a.kind = "raise" THEN a
        ELSE LET r == RawApiStats(a.val, e)
             IN  IF r.kind = "raise" THEN Raise(r.exc, a.log \o r.log)
                 ELSE Return(a.val, a.log \o r.log)

\* The answers of the environment under which a fetch returns, and raises.
OkEnvs == {e \in Envs : PiholeStats(e).kind = "return"}
BadEnvs == {e \in Envs : PiholeStats(e).kind = "raise"}

\* ------------------------------------------------------------------ state
VARIABLES
    th,             \* each thread's position: [pc, ret, page, llp, nf]
    backlight_on,   \* StatusDriver._backlight_on
    interval,       \* StatusDriver._update_interval_min
    page,           \* StatusDriver._current_render_page_index
    rotate,         \* StatusDriver._auto_rotate_page
    update_timer,   \* StatusDriver.update_timer: the slot of the armed Timer
                    \* it refers to, 0 when that Timer has fired or was
                    \* cancelled (cancel() is then without effect)
    lcd,            \* the display: power, backlight, the two rows, the cursor
    barrier_broken, \* end_barrier was aborted
    nsig,           \* SIGINTs delivered so far
    shutdownLog,    \* history: the steps main's finally block has performed
    ticks,          \* history: timer ticks since startup; -1 once a button
                    \* was pressed, a fetch has failed, or a Timer fired
                    \* before StatusDriver was constructed or while an
                    \* earlier callback was still running
    npress,         \* button presses handed to a callback so far
    pressed,        \* history: the switches pressed (SpecPress)
    env,            \* the environment of a single call (SpecFetch)
    res             \* the result of that call (SpecFetch)

vars == <<th, backlight_on, interval, page, rotate, update_timer, lcd,
          barrier_broken, nsig, shutdownLog, ticks, npress, pressed, env, res>>

\* A thread's record: pc is its position, ret the position a render returns
\* to, page the page a render draws, llp auto_update's load_last_page, nf
\* the fetches of the current run of auto_update.
At(pc) == [pc |-> pc, ret |-> "", page |-> 0, llp |-> FALSE, nf |-> 0]
Free == At("free")
Armed == At("armed")

NoEnv == [token |-> "ok", create |-> "ok", connect |-> "ok", http |-> "ok"]
NoCall == [op |-> "none", r |-> Return("none", <<>>)]

\* ---------------------------------------------------------------- display
\* clear.py:7-10; the controller's clear also homes the cursor
ClearLcd(l) == [l EXCEPT !.row0 = "", !.row1 = "", !.cur = 0, !.col0 = TRUE]

\* clear.py:13-15
TurnOffLcd(l) == [l EXCEPT !.on = FALSE, !.backlight = FALSE]

\* clear.py:18-20
TurnOnLcd(l) == [l EXCEPT !.on = TRUE, !.backlight = TRUE]

\* lcd.home()
Home(l) == [l EXCEPT !.cur = 0, !.col0 = TRUE]

\* lcd.write(text) at the cursor: a row holds one text written from its
\* first column, anything else shows as "mixed".
WriteLcd(l, text) ==
    LET old == IF l.cur = 0 THEN l.row0 ELSE l.row1
        new == IF l.col0 /\ old \in {"", text} THEN text ELSE "mixed"
    IN  IF l.cur = 0 THEN [l EXCEPT !.row0 = new, !.col0 = FALSE]
        ELSE [l EXCEPT !.row1 = new, !.col0 = FALSE]

\* pistats.py:424-435 without reset
ToggleCursorLine(l) ==
    IF l.cur = 0 THEN [l EXCEPT !.cur = 1, !.col0 = TRUE] ELSE Home(l)

\* pistats.py:438-441
InitLcd(l) == Home(TurnOnLcd(ClearLcd(l)))

LcdOff == [on |-> FALSE, backlight |-> FALSE, row0 |-> "", row1 |-> "",
           cur |-> 0, col0 |-> TRUE]

\* ------------------------------------------------------------------ init
\* The daemon after main has installed the signal handler and StatusDriver
\* has set up the display and its fields (pistats.py:453-457, 175-206): main is
\* about to call self.update() at line 208.
DaemonInit ==
    /\ th = [t \in Threads |->
               IF t = MainT THEN At("ctor")
               ELSE IF t = LsnT THEN At("none") ELSE Free]
    /\ backlight_on = TRUE
    /\ interval = 30
    /\ page = 0
    /\ rotate = TRUE
    /\ update_timer = 0
    /\ lcd = InitLcd(LcdOff)
    /\ barrier_broken = FALSE
    /\ nsig = 0
    /\ shutdownLog = <<>>
    /\ ticks = 0
    /\ npress = 0
    /\ pressed = {}

Init == DaemonInit /\ env = NoEnv /\ res = NoCall

\* ---------------------------------------------------------------- helpers
\* Where a thread is left by an exception nothing catches.
Dead(t) == IF t = MainT THEN At("crashed") ELSE IF t = LsnT THEN At("dead") ELSE Free

\* Where a thread is when its callback has returned.
Returned(t) == IF t = LsnT THEN At("idle") ELSE Free

\* Timer.cancel() on the Timer self.update_timer refers to, pistats.py:342-344
CancelTimers(thr) ==
    IF update_timer /= 0 /\ thr[update_timer].pc = "armed"
    THEN [thr EXCEPT ![update_timer] = Free]
    ELSE thr

\* The slot a new Timer takes: the lowest one no Timer holds.
IsNewSlot(s) == th[s].pc = "free" /\ \A r \in Slots : r < s => th[r].pc /= "free"

\* The Timers whose callback is running.
Running == {s \in Slots : th[s].pc \notin {"free", "armed"}}

\* The Timers started and neither fired nor cancelled.
ArmedTimers == {s \in Slots : th[s].pc = "armed"}

\* The interpreter stays up while the main thread or a non-daemon thread runs.
ProcessAlive ==
    \/ th[MainT].pc \notin {"done", "crashed", "exited"}
    \/ \E s \in Slots : th[s].pc /= "free"
    \/ th[LsnT].pc \notin {"none", "off", "dead"}

\* StatusDriver.update, pistats.py:308-315, returned: one more fetch of the
\* tick when a Timer's thread made it.
Fetched(t, r) == IF t \in Slots THEN [r EXCEPT !.nf = @ + 1] ELSE r

\* ------------------------------------------------------------ auto_update
\* pistats.py:318-322: the test of the interval, then self.update()
AutoCheck(t) ==
    /\ th[t].pc = "a_check"
    /\ \/ /\ interval = 0
          /\ th' = [th EXCEPT ![t].pc = "a_end"]
       \/ /\ interval /= 0
          /\ OkEnvs /= {}
          /\ th' = [th EXCEPT ![t] = Fetched(t, [@ EXCEPT !.pc = "a_rot"])]
    /\ UNCHANGED <<backlight_on, interval, page, rotate, update_timer, lcd,
                   barrier_broken, nsig, shutdownLog, ticks, npress, pressed, env, res>>

\* pistats.py:324-325
AutoRotate_NoIncrement(t) ==
    /\ th[t].pc = "a_rot"
    /\ th' = [th EXCEPT ![t].pc = "a_arm"]
    /\ UNCHANGED <<backlight_on, interval, page, rotate, update_timer, lcd,
                   barrier_broken, nsig, shutdownLog, ticks, npress, pressed, env, res>>

AutoRotate_IgnoresLastPage(t) ==
    /\ th[t].pc = "a_rot"
    /\ IF rotate
       THEN page' = page + 1 /\ th' = [th EXCEPT ![t].pc = "a_wrap"]
       ELSE page' = page /\ th' = [th EXCEPT ![t].pc = "a_arm"]
    /\ UNCHANGED <<backlight_on, interval, rotate, update_timer, lcd,
                   barrier_broken, nsig, shutdownLog, ticks, npress, pressed, env, res>>

AutoRotate(t) ==
    /\ th[t].pc = "a_rot"
    /\ IF rotate /\ ~th[t].llp
       THEN page' = page + 1 /\ th' = [th EXCEPT ![t].pc = "a_wrap"]
       ELSE page' = page /\ th' = [th EXCEPT ![t].pc = "a_arm"]
    /\ UNCHANGED <<backlight_on, interval, rotate, update_timer, lcd,
                   barrier_broken, nsig, shutdownLog, ticks, npress, pressed, env, res>>

\* pistats.py:327-328
AutoWrap(t) ==
    /\ th[t].pc = "a_wrap"
    /\ page' = IF page > LastPage THEN 0 ELSE page
    /\ th' = [th EXCEPT ![t].pc = "a_arm"]
    /\ UNCHANGED <<backlight_on, interval, rotate, update_timer, lcd,
                   barrier_broken, nsig, shutdownLog, ticks, npress, pressed, env, res>>

\* pistats.py:330-331: a new Timer, started
AutoArm(t) ==
    /\ th[t].pc = "a_arm"
    /\ \E s \in Slots :
        /\ IsNewSlot(s)
        /\ th' = [th EXCEPT ![t].pc = "a_d0", ![s] = Armed]
        /\ update_timer' = s
    /\ UNCHANGED <<backlight_on, interval, page, rotate, lcd,
                   barrier_broken, nsig, shutdownLog, ticks, npress, pressed, env, res>>

\* pistats.py:333-340: the tests of the page index from the one the thread
\* stands at, up to the first that holds, whose render is called
DispatchFrom(pc) ==
    CASE pc = "a_d0" -> 0 [] pc = "a_d1" -> 1 [] pc = "a_d2" -> 2 [] pc = "a_d3" -> 3

DispatchAfter(p) ==
    CASE p = 0 -> "a_d1" [] p = 1 -> "a_d2" [] p = 2 -> "a_d3" [] p = 3 -> "a_end"

AutoDispatch(t) ==
    /\ th[t].pc \in {"a_d0", "a_d1", "a_d2", "a_d3"}
    /\ th' = [th EXCEPT ![t] =
                IF page \in DispatchFrom(th[t].pc)..LastPage
                THEN [@ EXCEPT !.pc = "r_set", !.ret = DispatchAfter(page), !.page = page]
                ELSE [@ EXCEPT !.pc = "a_end"]]
    /\ UNCHANGED <<backlight_on, interval, page, rotate, update_timer, lcd,
                   barrier_broken, nsig, shutdownLog, ticks, npress, pressed, env, res>>

\* auto_update returns: a Timer's thread ends, the listener waits for a press
AutoReturn(t) ==
    /\ th[t].pc = "a_end"
    /\ th' = [th EXCEPT ![t] = Returned(t)]
    /\ UNCHANGED <<backlight_on, interval, page, rotate, update_timer, lcd,
                   barrier_broken, nsig, shutdownLog, ticks, npress, pressed, env, res>>

\* ----------------------------------------------------------------- render
\* render_status_ip / render_uptime_memory_temp / render_blocked_info /
\* render_client_info, pistats.py:370-421, drawing page th[t].page.
\* The assignment of the page index.
RenderSetPage(t) ==
    /\ th[t].pc = "r_set"
    /\ page' = th[t].page
    /\ th' = [th EXCEPT ![t].pc = "r_clear"]
    /\ UNCHANGED <<backlight_on, interval, rotate, update_timer, lcd,
                   barrier_broken, nsig, shutdownLog, ticks, npress, pressed, env, res>>

\* clear_lcd, toggle_cursor_line(reset=True) and self.update()
RenderClear(t) ==
    /\ th[t].pc = "r_clear"
    /\ OkEnvs /= {}
    /\ lcd' = Home(ClearLcd(lcd))
    /\ th' = [th EXCEPT ![t] = Fetched(t, [@ EXCEPT !.pc = "r_line0"])]
    /\ UNCHANGED <<backlight_on, interval, page, rotate, update_timer,
                   barrier_broken, nsig, shutdownLog, ticks, npress, pressed, env, res>>

\* The write of the first line.
RenderLine0(t) ==
    /\ th[t].pc = "r_line0"
    /\ lcd' = WriteLcd(lcd, PageLines[th[t].page + 1][1])
    /\ th' = [th EXCEPT ![t].pc = "r_line1"]
    /\ UNCHANGED <<backlight_on, interval, page, rotate, update_timer,
                   barrier_broken, nsig, shutdownLog, ticks, npress, pressed, env, res>>

\* toggle_cursor_line, the write of the second line, and the return.
RenderLine1(t) ==
    /\ th[t].pc = "r_line1"
    /\ lcd' = WriteLcd(ToggleCursorLine(lcd), PageLines[th[t].page + 1][2])
    /\ th' = [th EXCEPT ![t] = IF th[t].ret = "idle" THEN At("idle")
                                ELSE [@ EXCEPT !.pc = th[t].ret, !.ret = "", !.page = 0]]
    /\ UNCHANGED <<backlight_on, interval, page, rotate, update_timer,
                   barrier_broken, nsig, shutdownLog, ticks, npress, pressed, env, res>>

\* ----------------------------------------------------------------- update
\* self.update() raises what pihole_stats raised (a missing token, an HTTP
\* error, an OSError of the socket); nothing in pistats.py catches it, and
\* the thread that called it ends.
UpdateRaises(t) ==
    /\ \/ th[t].pc \in {"ctor", "r_clear"}
       \/ th[t].pc = "a_check" /\ interval /= 0
    /\ BadEnvs /= {}
    /\ lcd' = IF th[t].pc = "r_clear" THEN Home(ClearLcd(lcd)) ELSE lcd
    /\ th' = [th EXCEPT ![t] = Dead(t)]
    /\ ticks' = -1
    /\ UNCHANGED <<backlight_on, interval, page, rotate, update_timer,
                   barrier_broken, nsig, shutdownLog, npress, pressed, env, res>>

\* ------------------------------------------------------------------ timer
\* threading.Timer.run: the interval has passed and cancel() was not called
TimerFires(s) ==
    /\ th[s].pc = "armed"
    /\ ticks < MaxTicks
    /\ Cardinality(Running) < MaxRunning
    /\ th' = [th EXCEPT ![s] = At("a_check")]
    /\ update_timer' = IF update_timer = s THEN 0 ELSE update_timer
    /\ ticks' = IF /\ ticks >= 0
                    /\ Running = {}
                    /\ th[MainT].pc \notin {"ctor", "r_set", "r_clear", "r_line0", "r_line1"}
              THEN ticks + 1 ELSE -1
    /\ UNCHANGED <<backlight_on, interval, page, rotate, lcd,
                   barrier_broken, nsig, shutdownLog, npress, pressed, env, res>>

\* ------------------------------------------------------------------- main
\* StatusDriver.__init__, pistats.py:208-213: the first fetch, the first
\* Timer, then the first render on the main thread
MainCtor ==
    /\ th[MainT].pc = "ctor"
    /\ OkEnvs /= {}
    /\ \E s \in Slots :
        /\ IsNewSlot(s)
        /\ th' = [th EXCEPT ![s] = Armed,
                            ![MainT] = [At("r_set") EXCEPT !.ret = "m_register"]]
        /\ update_timer' = s
    /\ UNCHANGED <<backlight_on, interval, page, rotate, lcd,
                   barrier_broken, nsig, shutdownLog, ticks, npress, pressed, env, res>>

\* pistats.py:459-469: the listener is registered and activated, and main
\* waits on the barrier
MainRegister ==
    /\ th[MainT].pc = "m_register"
    /\ th' = [th EXCEPT ![MainT] = At("m_wait"), ![LsnT] = At("idle")]
    /\ UNCHANGED <<backlight_on, interval, page, rotate, update_timer, lcd,
                   barrier_broken, nsig, shutdownLog, ticks, npress, pressed, env, res>>

\* signal_exit_handler, pistats.py:444-447, on the main thread: the barrier
\* is aborted and SystemExit is raised where main stands.  Only the wait of
\* line 469 is inside the try statement.
Sigint ==
    /\ nsig < MaxSigints
    /\ th[MainT].pc \notin {"done", "crashed", "exited"}
    /\ nsig' = nsig + 1
    /\ barrier_broken' = TRUE
    /\ th' = [th EXCEPT ![MainT] = IF th[MainT].pc = "m_wait" THEN At("fin_cancel")
                                    ELSE At("exited")]
    /\ UNCHANGED <<backlight_on, interval, page, rotate, update_timer, lcd,
                   shutdownLog, ticks, npress, pressed, env, res>>

\* The finally block of main, pistats.py:474-478.
MainFinally_ClearFirst ==
    LET pc == th[MainT].pc
    IN
    \/ /\ pc = "fin_cancel"
       /\ lcd' = ClearLcd(lcd)
       /\ th' = [th EXCEPT ![MainT] = At("fin_deactivate")]
       /\ shutdownLog' = Append(shutdownLog, "clear")
       /\ UNCHANGED update_timer
    \/ /\ pc = "fin_deactivate"
       /\ th[LsnT].pc \in {"idle", "dead"}
       /\ th' = [th EXCEPT ![MainT] = At("fin_clear"), ![LsnT] = At("off")]
       /\ shutdownLog' = Append(shutdownLog, "deactivate")
       /\ UNCHANGED <<update_timer, lcd>>
    \/ /\ pc = "fin_clear"
       /\ th' = [CancelTimers(th) EXCEPT ![MainT] = At("fin_off")]
       /\ update_timer' = 0
       /\ shutdownLog' = Append(shutdownLog, "cancel_timers")
       /\ UNCHANGED lcd
    \/ /\ pc = "fin_off"
       /\ lcd' = TurnOffLcd(lcd)
       /\ th' = [th EXCEPT ![MainT] = At("done")]
       /\ shutdownLog' = shutdownLog \o <<"display_off", "backlight_off">>
       /\ UNCHANGED update_timer

MainFinallySteps ==
    LET pc == th[MainT].pc
    IN
    \/ /\ pc = "fin_cancel"
       /\ th' = [CancelTimers(th) EXCEPT ![MainT] = At("fin_deactivate")]
       /\ update_timer' = 0
       /\ shutdownLog' = Append(shutdownLog, "cancel_timers")
       /\ UNCHANGED lcd
    \/ /\ pc = "fin_deactivate"
       /\ th[LsnT].pc \in {"idle", "dead"}
       /\ th' = [th EXCEPT ![MainT] = At("fin_clear"), ![LsnT] = At("off")]
       /\ shutdownLog' = Append(shutdownLog, "deactivate")
       /\ UNCHANGED <<update_timer, lcd>>
    \/ /\ pc = "fin_clear"
       /\ lcd' = ClearLcd(lcd)
       /\ th' = [th EXCEPT ![MainT] = At("fin_off")]
       /\ shutdownLog' = Append(shutdownLog, "clear")
       /\ UNCHANGED update_timer
    \/ /\ pc = "fin_off"
       /\ lcd' = TurnOffLcd(lcd)
       /\ th' = [th EXCEPT ![MainT] = At("done")]
       /\ shutdownLog' = shutdownLog \o <<"display_off", "backlight_off">>
       /\ UNCHANGED update_timer

MainFinally ==
    /\ MainFinallySteps
    /\ UNCHANGED <<backlight_on, interval, page, rotate,
                   barrier_broken, nsig, ticks, npress, pressed, env, res>>

\* --------------------------------------------------------------- listener
\* pistats.py:460-463: the page each of the switches 0..3 renders
SwitchPage_InOrder == <<0, 1, 2, 3>>

SwitchPage == <<0, 2, 1, 3>>

\* A press of a registered switch, handed to its callback by the listener's
\* dispatcher thread once the callback before it has returned
\* (pistats.py:460-464).
PressStep(sw) ==
    /\ th[LsnT].pc = "idle"
    /\ th' = [th EXCEPT ![LsnT] =
                IF sw = 4 THEN At("c_open")
                ELSE [At("r_set") EXCEPT !.ret = "idle", !.page = SwitchPage[sw + 1]]]
    /\ ticks' = -1
    /\ UNCHANGED <<backlight_on, interval, page, rotate, update_timer, lcd,
                   barrier_broken, nsig, shutdownLog, env, res>>

Press(sw) ==
    /\ npress < MaxPresses
    /\ PressStep(sw)
    /\ npress' = npress + 1
    /\ UNCHANGED pressed

\* The head of choose_function, update_interval and update_software
\* (pistats.py:216-235, 347-358, 254-281): self.cancel_timers(), then
\* LCDQuestion.ask() puts the question and the first answer on the display
\* and waits for the user.
AfterOpen(pc) ==
    CASE pc = "c_open" -> "c_answer" [] pc = "u_open" -> "u_answer"
      [] pc = "s_open" -> "s_answer"

MenuOpen ==
    /\ th[LsnT].pc \in {"c_open", "u_open", "s_open"}
    /\ th' = [CancelTimers(th) EXCEPT ![LsnT] = At(AfterOpen(th[LsnT].pc))]
    /\ update_timer' = 0
    /\ lcd' = [lcd EXCEPT !.row0 = "question", !.row1 = "answer",
                          !.cur = 1, !.col0 = FALSE]
    /\ UNCHANGED <<backlight_on, interval, page, rotate,
                   barrier_broken, nsig, shutdownLog, ticks, npress, pressed, env, res>>

\* choose_function, pistats.py:235-251: the answer and its branch, with
\* toggle_backlight (pistats.py:362-368) for the answer 0
ChooseAnswer ==
    /\ th[LsnT].pc = "c_answer"
    /\ \E answer_index \in 0..4 :
        /\ th' = [th EXCEPT ![LsnT] =
                    At(CASE answer_index = 1 -> "u_open"
                         [] answer_index = 3 -> "s_open"
                         [] OTHER -> "a_check")]
        /\ backlight_on' = IF answer_index = 0 THEN ~backlight_on ELSE backlight_on
        /\ lcd' = IF answer_index = 0 THEN [lcd EXCEPT !.backlight = ~backlight_on]
                  ELSE lcd
        /\ rotate' = IF answer_index = 2 THEN ~rotate ELSE rotate
    /\ UNCHANGED <<interval, page, update_timer,
                   barrier_broken, nsig, shutdownLog, ticks, npress, pressed, env, res>>

\* update_interval, pistats.py:358-360
IntervalAnswer ==
    /\ th[LsnT].pc = "u_answer"
    /\ \E answer_index \in IntervalAnswers : interval' = intervals[answer_index]
    /\ th' = [th EXCEPT ![LsnT] = At("a_check")]
    /\ UNCHANGED <<backlight_on, page, rotate, update_timer, lcd,
                   barrier_broken, nsig, shutdownLog, ticks, npress, pressed, env, res>>

\* update_software, pistats.py:281-285
SoftwareAnswer ==
    /\ th[LsnT].pc = "s_answer"
    /\ \E should_update \in BOOLEAN :
        th' = [th EXCEPT ![LsnT] = At(IF should_update THEN "s_notice" ELSE "a_check")]
    /\ UNCHANGED <<backlight_on, interval, page, rotate, update_timer, lcd,
                   barrier_broken, nsig, shutdownLog, ticks, npress, pressed, env, res>>

\* update_software, pistats.py:289-306: the notice, the updates, and
\* auto_update(load_last_page = True)
SoftwareUpdate ==
    /\ th[LsnT].pc = "s_notice"
    /\ lcd' = WriteLcd(ToggleCursorLine(WriteLcd(Home(ClearLcd(lcd)), "Updating...")),
                       "Do not unplug!")
    /\ th' = [th EXCEPT ![LsnT] = [At("a_check") EXCEPT !.llp = TRUE]]
    /\ UNCHANGED <<backlight_on, interval, page, rotate, update_timer,
                   barrier_broken, nsig, shutdownLog, ticks, npress, pressed, env, res>>

\* ------------------------------------------------------------------- spec
Runners == {LsnT} \cup Slots

Next ==
    \/ \E t \in Runners : AutoCheck(t)
    \/ \E t \in Runners : AutoRotate(t)
    \/ \E t \in Runners : AutoWrap(t)
    \/ \E t \in Runners : AutoArm(t)
    \/ \E t \in Runners : AutoDispatch(t)
    \/ \E t \in Runners : AutoReturn(t)
    \/ \E t \in Threads : RenderSetPage(t)
    \/ \E t \in Threads : RenderClear(t)
    \/ \E t \in Threads : RenderLine0(t)
    \/ \E t \in Threads : RenderLine1(t)
    \/ \E t \in Threads : UpdateRaises(t)
    \/ \E s \in Slots : TimerFires(s)
    \/ MainCtor
    \/ MainRegister
    \/ Sigint
    \/ MainFinally
    \/ \E sw \in Switches : Press(sw)
    \/ MenuOpen
    \/ ChooseAnswer
    \/ IntervalAnswer
    \/ SoftwareAnswer
    \/ SoftwareUpdate

Spec == Init /\ [][Next]_vars

\* The daemon that no button is pressed on: the timer, the signal and the
\* failures of the fetch drive it.  A Timer fires in turn, when the callback
\* of the Timer before it has returned (the interval is a minute at least).
TimerFiresInTurn(s) == Running = {} /\ TimerFires(s)

NextTicks ==
    \/ \E t \in Slots : AutoCheck(t)
    \/ \E t \in Slots : AutoRotate(t)
    \/ \E t \in Slots : AutoWrap(t)
    \/ \E t \in Slots : AutoArm(t)
    \/ \E t \in Slots : AutoDispatch(t)
    \/ \E t \in Slots : AutoReturn(t)
    \/ \E t \in Threads : RenderSetPage(t)
    \/ \E t \in Threads : RenderClear(t)
    \/ \E t \in Threads : RenderLine0(t)
    \/ \E t \in Threads : RenderLine1(t)
    \/ \E t \in Threads : UpdateRaises(t)
    \/ \E s \in Slots : TimerFiresInTurn(s)
    \/ MainCtor
    \/ MainRegister
    \/ Sigint
    \/ MainFinally

SpecTicks == Init /\ [][NextTicks]_vars

\* The daemon under the buttons alone, each switch pressed at most once and
\* remembered: no Timer fires, no signal arrives, every fetch returns.
PressOnce(sw) ==
    /\ sw \notin pressed
    /\ PressStep(sw)
    /\ pressed' = pressed \cup {sw}
    /\ UNCHANGED npress

NextPress ==
    \/ AutoCheck(LsnT)
    \/ AutoRotate(LsnT)
    \/ AutoWrap(LsnT)
    \/ AutoArm(LsnT)
    \/ AutoDispatch(LsnT)
    \/ AutoReturn(LsnT)
    \/ \E t \in {MainT, LsnT} : RenderSetPage(t)
    \/ \E t \in {MainT, LsnT} : RenderClear(t)
    \/ \E t \in {MainT, LsnT} : RenderLine0(t)
    \/ \E t \in {MainT, LsnT} : RenderLine1(t)
    \/ MainCtor
    \/ MainRegister
    \/ \E sw \in Switches : PressOnce(sw)
    \/ MenuOpen
    \/ ChooseAnswer
    \/ IntervalAnswer
    \/ SoftwareAnswer
    \/ SoftwareUpdate

SpecPress == Init /\ [][NextPress]_vars

\* ------------------------------------------- one call of the fetch, alone
\* pihole_stats and _get_ip_address applied to every answer of the
\* environment.
InitFetch == DaemonInit /\ env \in Envs /\ res = NoCall

CallPiholeStats ==
    /\ res.op = "none"
    /\ res' = [op |-> "pihole_stats", r |-> PiholeStats(env)]
    /\ UNCHANGED <<th, backlight_on, interval, page, rotate, update_timer, lcd,
                   barrier_broken, nsig, shutdownLog, ticks, npress, pressed, env>>

CallGetIpAddress ==
    /\ res.op = "none"
    /\ res' = [op |-> "_get_ip_address", r |-> GetIpAddress(env)]
    /\ UNCHANGED <<th, backlight_on, interval, page, rotate, update_timer, lcd,
                   barrier_broken, nsig, shutdownLog, ticks, npress, pressed, env>>

NextFetch == CallPiholeStats \/ CallGetIpAddress

SpecFetch == InitFetch /\ [][NextFetch]_vars

\* ================================================================ claims
Range(q) == {q[i] : i \in 1..Len(q)}

\* No Timer's thread stands between the start of its callback and the end of
\* the rotation of the page index.
TickSettled == \A s \in Slots : th[s].pc \notin {"a_check", "a_rot", "a_wrap"}

\* C1: with rotation enabled, after N timer ticks since startup (and nothing
\* else: no button pressed, no fetch failed, each callback over before the
\* next Timer fires) the page index is N mod 4, and once the tick's render
\* has returned the display shows that page.
C1_PageIsTicksMod4 ==
    (ticks >= 0 /\ TickSettled) =>
        /\ rotate
        /\ page = ticks % 4
        /\ (Running = {} /\ th[MainT].pc = "m_wait") =>
               /\ lcd.row0 = PageLines[page + 1][1]
               /\ lcd.row1 = PageLines[page + 1][2]

\* C1 witness: the fifth tick has wrapped the index around to page 1.
C1_Witness ==
    ticks = 5 /\ page = 1 /\ Running = {} /\ th[MainT].pc = "m_wait" /\ lcd.row0 = "uptime"

\* C2: at most one Timer is armed (started, neither fired nor cancelled).
C2_SingleArmedTimer == Cardinality(ArmedTimers) <= 1

\* The steps of the orderly shutdown, in their order.
ShutdownOrder == <<"cancel_timers", "deactivate", "clear", "display_off", "backlight_off">>

\* C3: a SIGINT that finds main waiting on the barrier aborts the barrier and
\* takes main into its finally block, whose steps run in the order cancel the
\* timer, deactivate the listener, clear the display, display off, backlight
\* off; when main is done all five have run.
C3_OrderlyShutdown ==
    LET pc == th[MainT].pc
    IN  /\ pc = "m_wait" => (nsig = 0 /\ ~barrier_broken /\ shutdownLog = <<>>)
        /\ pc \in {"fin_cancel", "fin_deactivate", "fin_clear", "fin_off", "done"}
             => (nsig >= 1 /\ barrier_broken)
        /\ pc = "fin_cancel" => shutdownLog = <<>>
        /\ pc = "fin_deactivate" => shutdownLog = SubSeq(ShutdownOrder, 1, 1)
        /\ pc = "fin_clear" => shutdownLog = SubSeq(ShutdownOrder, 1, 2)
        /\ pc = "fin_off" => shutdownLog = SubSeq(ShutdownOrder, 1, 3)
        /\ pc = "done" => shutdownLog = ShutdownOrder
        /\ \E n \in 0..Len(ShutdownOrder) : shutdownLog = SubSeq(ShutdownOrder, 1, n)

\* C3 witness: one SIGINT, and main is done with the five steps.
C3_Witness ==
    th[MainT].pc = "done" /\ nsig = 1 /\ shutdownLog = ShutdownOrder /\ th[LsnT].pc = "off"

\* C4: once main's finally block has run, no Timer is armed and the display
\* is cleared and powered off.
C4_ShutdownIsFinal ==
    th[MainT].pc = "done" =>
        /\ ArmedTimers = {}
        /\ lcd.row0 = "" /\ lcd.row1 = ""
        /\ ~lcd.on /\ ~lcd.backlight

\* C5: one of the switches 0..4 is an exit button: once its callback has
\* returned, main has left the wait on the barrier.
C5_ExitButton ==
    \E sw \in Switches :
        (sw \in pressed /\ th[LsnT].pc = "idle") => th[MainT].pc /= "m_wait"

\* A step of a Timer's thread that fetches, changes the page index, writes to
\* the display or arms a Timer.
TimerRefreshStep(s) ==
    \/ AutoCheck(s) /\ th'[s].pc = "a_rot"
    \/ AutoRotate(s) /\ page' /= page
    \/ AutoWrap(s) /\ page' /= page
    \/ AutoArm(s)
    \/ RenderSetPage(s) /\ page' /= page
    \/ RenderClear(s)
    \/ RenderLine0(s)
    \/ RenderLine1(s)

\* C6: while the update interval is 0, no timer callback fetches, changes the
\* page index, writes to the display or arms a Timer.
C6_ZeroDisablesRefresh ==
    [][(interval = 0 /\ interval' = 0) => ~ \E s \in Slots : TimerRefreshStep(s)]_vars

\* C7: a fetch that raises (missing token, HTTP error) terminates the
\* process, in whichever thread it ran.
C7_FetchFailureTerminates ==
    [][(\E t \in Threads : UpdateRaises(t)) => ~ProcessAlive']_vars

\* C8 (as amended): with the token file missing or without a WEBPASSWORD
\* line, pihole_stats raises and the HTTP GET is not attempted; it raises
\* RuntimeError unless the lookup of the local address had already raised.
C8_NoHttpGetWithoutToken ==
    (res.op = "pihole_stats" /\ env.token /= "ok") =>
        /\ res.r.kind = "raise"
        /\ "http.get" \notin Range(res.r.log)
        /\ res.r.exc = IF GetIpAddress(env).kind = "raise" THEN GetIpAddress(env).exc
                       ELSE "RuntimeError"

\* C8 witness: the call was made with the file missing and raised RuntimeError
\* after the socket of the address lookup was connected.
C8_Witness ==
    /\ res.op = "pihole_stats" /\ env.token = "missing"
    /\ res.r.exc = "RuntimeError" /\ "socket.connect" \in Range(res.r.log)

\* C8 as claimed: RuntimeError, and neither the HTTP GET nor any socket
\* operation before it.
C8_NoNetworkCallWithoutToken ==
    (res.op = "pihole_stats" /\ env.token /= "ok") =>
        /\ res.r.kind = "raise" /\ res.r.exc = "RuntimeError"
        /\ Range(res.r.log) \cap {"http.get", "socket.socket", "socket.connect",
                                  "socket.getsockname", "socket.close"} = {}

\* C9: whatever socket error is raised while the socket is created or
\* connected, _get_ip_address returns the placeholder "ERROR?".
C9_PlaceholderOnSocketError ==
    (res.op = "_get_ip_address" /\ (env.create /= "ok" \/ env.connect /= "ok")) =>
        (res.r.kind = "return" /\ res.r.val = "ERROR?")

\* C10: a timer tick that refreshes the display has fetched exactly once
\* when auto_update returns.
C10_OneFetchPerTick ==
    \A s \in Slots : (th[s].pc = "a_end" /\ th[s].nf > 0) => th[s].nf = 1

\* =================================================================== uptime
\* Whole days of uptime the check of uptime() covers.
MaxUptimeDays == 2

\* pistats.py:105-107
minute == 60
hour == minute * 60
day == hour * 24

\* int(x / y) for whole x >= 0 and y > 0: the quotient, truncated.
IntDiv(x, y) == x \div y

Uptime_MinutesOfDay(total_seconds) ==
    [days |-> IntDiv(total_seconds, day),
     hours |-> IntDiv(total_seconds % day, hour),
     minutes |-> IntDiv(total_seconds % day, minute)]

\* uptime, pistats.py:96-113, on the seconds read from /proc/uptime: the
\* three numbers it formats as "{days}D {hours}H {minutes}M".
Uptime(total_seconds) ==
    [days |-> IntDiv(total_seconds, day),
     hours |-> IntDiv(total_seconds % day, hour),
     minutes |-> IntDiv(total_seconds % hour, minute)]

\* One call of uptime() on every whole number of seconds below the bound.
InitUptime ==
    /\ DaemonInit
    /\ env \in [seconds : 0..(MaxUptimeDays * day - 1)]
    /\ res = NoCall

CallUptime ==
    /\ res.op = "none"
    /\ res' = [op |-> "uptime", r |-> Uptime(env.seconds)]
    /\ UNCHANGED <<th, backlight_on, interval, page, rotate, update_timer, lcd,
                   barrier_broken, nsig, shutdownLog, ticks, npress, pressed, env>>

NextUptime == CallUptime

SpecUptime == InitUptime /\ [][NextUptime]_vars

\* C11: the days, hours and minutes of uptime() bracket the seconds read:
\* days*86400 + hours*3600 + minutes*60 <= s < days*86400 + hours*3600 +
\* (minutes+1)*60.
C11_UptimeBrackets ==
    res.op = "uptime" =>
        LET u == res.r
            s == env.seconds
        IN  /\ u.days * 86400 + u.hours * 3600 + u.minutes * 60 <= s
            /\ s < u.days * 86400 + u.hours * 3600 + (u.minutes + 1) * 60

\* C11 witness: one day, one hour, one minute and one second of uptime.
C11_Witness ==
    /\ res.op = "uptime" /\ env.seconds = 90061
    /\ res.r = [days |-> 1, hours |-> 1, minutes |-> 1]

\* ================================================================= clear.py
\* Arguments on the command line of clear.py.
MaxArgs == 2

\* clear.py:29-40, the spellings of the two flags
OffFlags == {"-f", "--off"}
OnFlags == {"-o", "--on"}

\* The command lines of at most MaxArgs flags.
RECURSIVE ArgvOfLen(_)
ArgvOfLen(n) ==
    IF n = 0 THEN {<<>>}
    ELSE {Append(a, f) : a \in ArgvOfLen(n - 1), f \in OffFlags \cup OnFlags}

Argvs == UNION {ArgvOfLen(n) : n \in 0..MaxArgs}

ParseArgs_NoGroup(argv) ==
    [off |-> \E i \in 1..Len(argv) : argv[i] \in OffFlags,
     on |-> \E i \in 1..Len(argv) : argv[i] \in OnFlags,
     code |-> 0]

\* parser.parse_args(), clear.py:28-42: two store_true flags in a mutually
\* exclusive group; a flag of each on one command line is an error, on which
\* argparse prints the usage and exits with status 2.
ParseArgs(argv) ==
    LET off == \E i \in 1..Len(argv) : argv[i] \in OffFlags
        on == \E i \in 1..Len(argv) : argv[i] \in OnFlags
    IN  [off |-> off, on |-> on, code |-> IF off /\ on THEN 2 ELSE 0]

\* The displays clear.py may find.
Displays == [on : BOOLEAN, backlight : BOOLEAN, row0 : {"", "text"},
             row1 : {"", "text"}, cur : {0}, col0 : {TRUE}]

\* clear.py started on a command line, with the display as it was left.
InitClear ==
    /\ th = [t \in Threads |-> IF t = MainT THEN At("k_parse") ELSE At("none")]
    /\ backlight_on = TRUE
    /\ interval = 30
    /\ page = 0
    /\ rotate = TRUE
    /\ update_timer = 0
    /\ lcd \in Displays
    /\ barrier_broken = FALSE
    /\ nsig = 0
    /\ shutdownLog = <<>>
    /\ ticks = 0
    /\ npress = 0
    /\ pressed = {}
    /\ \E argv \in Argvs : env = [argv |-> argv, lcd0 |-> lcd]
    /\ res = [op |-> "clear.py",
              r |-> [off |-> FALSE, on |-> FALSE, code |-> -1, opened |-> FALSE,
                     log |-> <<>>]]

\* clear.py:42
ClearParse ==
    /\ th[MainT].pc = "k_parse"
    /\ LET args == ParseArgs(env.argv)
       IN  /\ res' = [res EXCEPT !.r.off = args.off, !.r.on = args.on,
                                 !.r.code = IF args.code /= 0 THEN args.code ELSE -1]
           /\ th' = [th EXCEPT ![MainT] = At(IF args.code /= 0 THEN "k_exit" ELSE "k_open")]
    /\ UNCHANGED <<backlight_on, interval, page, rotate, update_timer, lcd,
                   barrier_broken, nsig, shutdownLog, ticks, npress, pressed, env>>

\* clear.py:43
ClearOpen ==
    /\ th[MainT].pc = "k_open"
    /\ res' = [res EXCEPT !.r.opened = TRUE]
    /\ th' = [th EXCEPT ![MainT] = At("k_off")]
    /\ UNCHANGED <<backlight_on, interval, page, rotate, update_timer, lcd,
                   barrier_broken, nsig, shutdownLog, ticks, npress, pressed, env>>

\* clear.py:45-46
ClearTurnOff ==
    /\ th[MainT].pc = "k_off"
    /\ lcd' = IF res.r.off THEN TurnOffLcd(lcd) ELSE lcd
    /\ res' = IF res.r.off
              THEN [res EXCEPT !.r.log = @ \o <<"display_off", "backlight_off">>]
              ELSE res
    /\ th' = [th EXCEPT ![MainT] = At("k_on")]
    /\ UNCHANGED <<backlight_on, interval, page, rotate, update_timer,
                   barrier_broken, nsig, shutdownLog, ticks, npress, pressed, env>>

\* clear.py:48-49
ClearTurnOn ==
    /\ th[MainT].pc = "k_on"
    /\ lcd' = IF res.r.on THEN TurnOnLcd(lcd) ELSE lcd
    /\ res' = IF res.r.on
              THEN [res EXCEPT !.r.log = @ \o <<"display_on", "backlight_on">>]
              ELSE res
    /\ th' = [th EXCEPT ![MainT] = At("k_clear")]
    /\ UNCHANGED <<backlight_on, interval, page, rotate, update_timer,
                   barrier_broken, nsig, shutdownLog, ticks, npress, pressed, env>>

\* clear.py:51, and the return of main
ClearClear ==
    /\ th[MainT].pc = "k_clear"
    /\ lcd' = ClearLcd(lcd)
    /\ res' = [res EXCEPT !.r.log = @ \o <<"blink_off", "cursor_off", "clear">>,
                          !.r.code = 0]
    /\ th' = [th EXCEPT ![MainT] = At("k_done")]
    /\ UNCHANGED <<backlight_on, interval, page, rotate, update_timer,
                   barrier_broken, nsig, shutdownLog, ticks, npress, pressed, env>>

NextClear ==
    \/ ClearParse
    \/ ClearOpen
    \/ ClearTurnOff
    \/ ClearTurnOn
    \/ ClearClear

SpecClear == InitClear /\ [][NextClear]_vars

\* The command line names both flags.
BothFlags(argv) ==
    /\ \E i \in 1..Len(argv) : argv[i] \in OffFlags
    /\ \E i \in 1..Len(argv) : argv[i] \in OnFlags

\* C12: with --on and --off together clear.py gets no further than
\* parse_args: it exits with status 2, the hardware handle is never opened,
\* no command is sent and the display is as it was.
C12_BothFlagsRejected ==
    (res.op = "clear.py" /\ BothFlags(env.argv)) =>
        /\ th[MainT].pc \in {"k_parse", "k_exit"}
        /\ th[MainT].pc = "k_exit" => res.r.code = 2
        /\ ~res.r.opened
        /\ res.r.log = <<>>
        /\ lcd = env.lcd0

\* C12 witness: clear.py --on --off has exited with status 2.
C12_Witness ==
    /\ res.op = "clear.py" /\ env.argv = <<"--on", "--off">>
    /\ th[MainT].pc = "k_exit" /\ res.r.code = 2 /\ env.lcd0.on

\* The commands that switch the display or its backlight.
PowerCommands == {"display_off", "backlight_off", "display_on", "backlight_on"}

\* C13: in the commands clear.py has sent, the clear comes before the
\* commands that turn the display and the backlight off or on.
C13_ClearBeforePower ==
    res.op = "clear.py" =>
        \A i, j \in 1..Len(res.r.log) :
            (res.r.log[i] = "clear" /\ res.r.log[j] \in PowerCommands) => i < j

\* ============================================================ page buttons
\* C14: a press of switch 0, 1, 2 or 3 calls the render of page 0, 2, 1 or 3,
\* and when that callback returns the page index is that page and the display
\* holds that page's first line on row 0 and its second line on row 1, with
\* nothing else on it.
C14_PageButtonShowsPage ==
    [][/\ \A sw \in 0..3 :
            PressStep(sw) =>
                /\ th'[LsnT].pc = "r_set"
                /\ th'[LsnT].page = <<0, 2, 1, 3>>[sw + 1]
       /\ (RenderLine1(LsnT) /\ th[LsnT].ret = "idle") =>
            /\ th'[LsnT].pc = "idle"
            /\ page' = th[LsnT].page
            /\ lcd'.row0 = PageLines[page' + 1][1]
            /\ lcd'.row1 = PageLines[page' + 1][2]
            /\ lcd'.cur = 1
      ]_vars

\* C14 witness: switch 3 and then switch 1 were pressed, or the other way
\* round; the callback of switch 1 came last and page 2 is shown.
C14_Witness ==
    /\ {1, 3} \subseteq pressed /\ th[LsnT].pc = "idle"
    /\ page = 2 /\ lcd.row0 = "ads" /\ lcd.row1 = "sites"

\* ================================================= timer and page buttons
\* The daemon with the timer and the page buttons (switches 0..3) together:
\* every fetch returns, no menu is opened, no signal arrives, and the first
\* Timer (of 30 minutes) fires when main has come to wait on the barrier.
TimerFiresAfterStart(s) == th[MainT].pc = "m_wait" /\ TimerFires(s)

NextOverlap ==
    \/ \E t \in Slots : AutoCheck(t)
    \/ \E t \in Slots : AutoRotate(t)
    \/ \E t \in Slots : AutoWrap(t)
    \/ \E t \in Slots : AutoArm(t)
    \/ \E t \in Slots : AutoDispatch(t)
    \/ \E t \in Slots : AutoReturn(t)
    \/ \E t \in Threads : RenderSetPage(t)
    \/ \E t \in Threads : RenderClear(t)
    \/ \E t \in Threads : RenderLine0(t)
    \/ \E t \in Threads : RenderLine1(t)
    \/ \E s \in Slots : TimerFiresAfterStart(s)
    \/ MainCtor
    \/ MainRegister
    \/ \E sw \in 0..3 : Press(sw)

SpecOverlap == Init /\ [][NextOverlap]_vars

\* No callback is running: main waits on the barrier, the listener waits for
\* a press and no Timer's thread runs.
Quiescent ==
    /\ th[MainT].pc = "m_wait"
    /\ th[LsnT].pc = "idle"
    /\ Running = {}

\* C15: when no render (no callback at all) is in progress, the display holds
\* exactly the two lines of the page the page index names.
C15_DisplayMatchesIndex ==
    Quiescent =>
        /\ page \in 0..LastPage
        /\ lcd.row0 = PageLines[page + 1][1]
        /\ lcd.row1 = PageLines[page + 1][2]

\* ==================================================================== menus
\* A menu is open: the listener's thread is past the cancel_timers() at the
\* head of choose_function and has not yet called auto_update.
MenuIsOpen ==
    th[LsnT].pc \in {"c_answer", "u_open", "u_answer", "s_open", "s_answer", "s_notice"}

\* The listener's thread waits in LCDQuestion.ask() for the user's answer.
MenuAsking == th[LsnT].pc \in {"c_answer", "u_answer", "s_answer"}

\* C16: while a menu is open no Timer is armed, and while the menu waits for
\* the answer the display holds the question and nothing a timer callback
\* wrote.
C16_MenuSuspendsRefresh ==
    /\ MenuIsOpen => ArmedTimers = {}
    /\ MenuAsking => (lcd.row0 = "question" /\ lcd.row1 = "answer")

\* ============================================================ refresh cycle
\* The daemon is up with its refresh enabled and the buttons at rest: main
\* waits on the barrier, the interval is not 0 and the listener runs nothing.
RefreshExpected ==
    /\ th[MainT].pc = "m_wait"
    /\ interval /= 0
    /\ th[LsnT].pc = "idle"

\* C17: while the refresh is expected, a Timer is armed or a Timer's callback
\* is running, so that another refresh is to come.
C17_RefreshNeverStops ==
    RefreshExpected => (ArmedTimers /= {} \/ Running /= {})

\* ================================================================== signals
\* C18: when main has ended after a SIGINT, wherever the signal found it, the
\* five steps of the orderly shutdown have run: the Timer cancelled, the
\* listener deactivated, the display cleared and powered off.
C18_SigintAlwaysShutsDown ==
    (nsig >= 1 /\ th[MainT].pc \in {"done", "exited"}) =>
        /\ shutdownLog = ShutdownOrder
        /\ ~lcd.on /\ ~lcd.backlight

\* ======================================================= the answer Nothing
\* The daemon under the page buttons and then one press of switch 4 that the
\* user answers with "Nothing": no Timer fires, every fetch returns.  env
\* keeps the settings and the view choose_function was called in.
View == [backlight_on |-> backlight_on, interval |-> interval, rotate |-> rotate,
         page |-> page, row0 |-> lcd.row0, row1 |-> lcd.row1]

\* A press of a page button before the menu is opened.
PagePress(sw) == 4 \notin pressed /\ PressOnce(sw)

\* The press of switch 4, pistats.py:464: choose_function is called.
MenuPress ==
    /\ th[LsnT].pc = "idle"
    /\ 4 \notin pressed
    /\ th' = [th EXCEPT ![LsnT] = At("c_open")]
    /\ pressed' = pressed \cup {4}
    /\ env' = View
    /\ ticks' = -1
    /\ UNCHANGED <<backlight_on, interval, page, rotate, update_timer, lcd,
                   barrier_broken, nsig, shutdownLog, npress, res>>

\* choose_function with the answer "Nothing" (answer_index = 4): none of the
\* branches of pistats.py:237-249 is taken, and line 251 calls auto_update.
ChooseNothing ==
    /\ ChooseAnswer
    /\ th'[LsnT].pc = "a_check"
    /\ backlight_on' = backlight_on
    /\ rotate' = rotate

NextNothing ==
    \/ AutoCheck(LsnT)
    \/ AutoRotate(LsnT)
    \/ AutoWrap(LsnT)
    \/ AutoArm(LsnT)
    \/ AutoDispatch(LsnT)
    \/ AutoReturn(LsnT)
    \/ \E t \in {MainT, LsnT} : RenderSetPage(t)
    \/ \E t \in {MainT, LsnT} : RenderClear(t)
    \/ \E t \in {MainT, LsnT} : RenderLine0(t)
    \/ \E t \in {MainT, LsnT} : RenderLine1(t)
    \/ MainCtor
    \/ MainRegister
    \/ \E sw \in 0..3 : PagePress(sw)
    \/ MenuPress
    \/ MenuOpen
    \/ ChooseNothing

SpecNothing == Init /\ [][NextNothing]_vars

\* C19: when choose_function has returned from the answer "Nothing", the
\* backlight state, the interval, the rotate flag and the page index are what
\* they were when it was called, and the display shows the page it showed.
C19_NothingChangesNothing ==
    (4 \in pressed /\ th[LsnT].pc = "idle") => View = env

\* ================================================ auto_update and the index
\* Visits of the function menu.
MaxMenus == 2

\* A press of switch 4 (pistats.py:464) while nothing else runs, up to
\* MaxMenus times.
MenuButton ==
    /\ npress < MaxMenus
    /\ Running = {}
    /\ PressStep(4)
    /\ npress' = npress + 1
    /\ UNCHANGED pressed

\* A Timer fires while nothing else runs.
TimerFiresAtRest(s) == Quiescent /\ TimerFires(s)

\* The daemon under the function menu and the timer, one callback at a time:
\* auto_update is called by the Timer, by choose_function, by update_interval
\* and by update_software, with every setting the menus can leave.
NextMenus ==
    \/ \E t \in Runners : AutoCheck(t)
    \/ \E t \in Runners : AutoRotate(t)
    \/ \E t \in Runners : AutoWrap(t)
    \/ \E t \in Runners : AutoArm(t)
    \/ \E t \in Runners : AutoDispatch(t)
    \/ \E t \in Runners : AutoReturn(t)
    \/ \E t \in Threads : RenderSetPage(t)
    \/ \E t \in Threads : RenderClear(t)
    \/ \E t \in Threads : RenderLine0(t)
    \/ \E t \in Threads : RenderLine1(t)
    \/ \E s \in Slots : TimerFiresAtRest(s)
    \/ MainCtor
    \/ MainRegister
    \/ MenuButton
    \/ MenuOpen
    \/ ChooseAnswer
    \/ IntervalAnswer
    \/ SoftwareAnswer
    \/ SoftwareUpdate

SpecMenus == Init /\ [][NextMenus]_vars

\* auto_update was called with rotation disabled or with load_last_page set.
KeepsPage(t) == ~rotate \/ th[t].llp

\* What auto_update does with the page index, step by step: the index is
\* advanced (by 1, and from 3 to 0) exactly when rotation is enabled and
\* load_last_page is not set, it is left alone otherwise, and the render
\* that is called is the one of the page the index names.
IndexSteps(t) ==
    /\ AutoRotate(t) =>
         IF KeepsPage(t)
         THEN page' = page /\ th'[t].pc = "a_arm"
         ELSE page' = page + 1 /\ th'[t].pc = "a_wrap"
    /\ AutoWrap(t) => page' = (IF page > LastPage THEN 0 ELSE page)
    /\ (AutoCheck(t) \/ AutoArm(t) \/ AutoReturn(t)) => page' = page
    /\ (AutoDispatch(t) /\ th[t].pc = "a_d0" /\ page \in 0..LastPage) =>
         /\ page' = page
         /\ th'[t].pc = "r_set" /\ th'[t].page = page

\* C20 (as amended): auto_update called with a nonzero interval leaves the
\* page index alone and renders the page it names when rotation is disabled
\* or load_last_page is set, and advances the index only otherwise; called
\* with the interval 0 it returns at once and renders nothing.
C20_IndexKeptUnlessRotating ==
    [][\A t \in Runners :
          /\ IndexSteps(t)
          /\ AutoCheck(t) => th'[t].pc = (IF interval = 0 THEN "a_end" ELSE "a_rot")
      ]_vars

\* C20 witness: auto_update(load_last_page = True) after a software update,
\* with rotation enabled, has rendered the page shown before and is about to
\* return.
C20_Witness ==
    /\ th[LsnT].pc = "a_end" /\ th[LsnT].llp /\ rotate /\ interval /= 0
    /\ page = 0 /\ lcd.row0 = "status" /\ lcd.row1 = "ip"

\* C20 as claimed: whenever rotation is disabled or load_last_page is set,
\* auto_update goes on to render the page, whatever the interval.
C20_AlwaysRerenders ==
    [][\A t \in Runners :
          /\ IndexSteps(t)
          /\ (AutoCheck(t) /\ KeepsPage(t)) => th'[t].pc = "a_rot"
      ]_vars

====
